---- MODULE Spec2Model ----
(***************************************************************************)
(* Job execution and result correlation of workbot-plus.                   *)
(*                                                                         *)
(* Modelled revisions (the newest of each file):                           *)
(*   routes    src/backend/src/routes/bots.js            lines 274-615     *)
(*   dataset   src/backend/src/services/dataAnalystService.js 213-486      *)
(*   batch     src/unnamed/part_004                      lines 177-336     *)
(*   store     src/unnamed/part_007                                        *)
(*   server    src/unnamed/part_000 (error middleware)   lines 98-104      *)
(*                                                                         *)
(* Texts (stdout, stderr, error messages) are sequences of tokens; a       *)
(* literal message of the code is a one-token text.  Execution ids are     *)
(* drawn from a counter that stands for uuidv4().  A store write that is   *)
(* awaited is applied by the step that resumes the awaiting handler; the   *)
(* one write that is not awaited (timeout callback) is applied by an       *)
(* action of its own.                                                      *)
(***************************************************************************)
EXTENDS Integers, Sequences, FiniteSets, TLC

\* ---------------------------------------------------------------- bounds
MaxSubs == 1                      \* submissions handled in one run
Subs == 1..MaxSubs
MaxIds == 2 * MaxSubs             \* a batch submission draws two uuids
MaxUploads == 2                   \* batch uploads stored at the same time
Uploads == 1..MaxUploads
Ids == 1..MaxIds
Users == {"u1", "u2"}

\* ---------------------------------------------------- program constants
MULTER_LIMIT_MB == 50             \* limits.fileSize, in MB
MAX_FILE_MB == 10                 \* MAX_FILE_BYTES, in MB
FILES_LIMIT == 300                \* upload.array('files', 300)
MIN_JD_LEN == 10                  \* jobDescription.trim().length < 10
TRUNCATE_N == 2000                \* truncate(s, n = 2000)
SOFT_STDOUT_CAP == 10485760       \* MAX_BUFFER_BYTES, 10 * 1024 * 1024
SOFT_STDERR_CAP == 2097152        \* 2 * 1024 * 1024

MulterExts == {"csv", "pdf", "txt", "docx"}

\* ------------------------------------------------------------------ text
NullMsg == << >>                  \* SQL NULL / JS '' in a text column
Lit(s) == << s >>

\* a token is one character, except the two that stand for a long run of
\* filler characters: one character short of the stdout cap, and of the
\* stderr cap
FILL_OUT == "FILL_OUT"
FILL_ERR == "FILL_ERR"

\* s.length
TextLen(s) ==
  Len(s) + Cardinality({i \in 1..Len(s) : s[i] = FILL_OUT}) * (SOFT_STDOUT_CAP - 2)
         + Cardinality({i \in 1..Len(s) : s[i] = FILL_ERR}) * (SOFT_STDERR_CAP - 2)

\* s.slice(0, n), for n shorter than a run of filler
Slice(s, n) ==
  IF \E i \in 1..n : i <= Len(s) /\ s[i] \in {FILL_OUT, FILL_ERR}
  THEN LET k == CHOOSE i \in 1..n : /\ i <= Len(s) /\ s[i] \in {FILL_OUT, FILL_ERR}
                                    /\ \A j \in 1..(i - 1) : s[j] \notin {FILL_OUT, FILL_ERR} IN
       SubSeq(s, 1, k - 1) \o [i \in 1..(n - k + 1) |-> "x"]
  ELSE SubSeq(s, 1, n)

truncate(s, n) == IF TextLen(s) > n THEN Slice(s, n) ELSE s

\* JS `a || b` on texts: the empty text is falsy
OrElse(a, b) == IF a # << >> THEN a ELSE b

IsWs(t) == t = " "

RECURSIVE TrimLeft(_)
TrimLeft(t) == IF t # << >> /\ IsWs(Head(t)) THEN TrimLeft(Tail(t)) ELSE t

RECURSIVE TrimRight(_)
TrimRight(t) ==
  IF t # << >> /\ IsWs(t[Len(t)]) THEN TrimRight(SubSeq(t, 1, Len(t) - 1)) ELSE t

Trim(t) == TrimRight(TrimLeft(t))

\* whitespace between JSON lexemes is insignificant
RECURSIVE StripWs(_)
StripWs(t) ==
  IF t = << >> THEN << >>
  ELSE IF IsWs(Head(t)) THEN StripWs(Tail(t))
  ELSE << Head(t) >> \o StripWs(Tail(t))

\* parsed JSON values; "throw" is a SyntaxError
JObj(succ) == [t |-> "obj", success |-> succ, msg |-> NullMsg]
JNum == [t |-> "num", success |-> "absent", msg |-> NullMsg]
JNull == [t |-> "null", success |-> "absent", msg |-> NullMsg]
JThrow(m) == [t |-> "throw", success |-> "absent", msg |-> m]
NoDoc == [t |-> "none", success |-> "absent", msg |-> NullMsg]

\* an array, and the object {"k": v} with one nested member
JArr(items) == [t |-> "arr", success |-> "absent", msg |-> NullMsg, items |-> items]
JObjK(v) == [t |-> "obj", success |-> "absent", msg |-> NullMsg, k |-> v]

\* a value read from the front of a token text, and the tokens after it
PFail == [ok |-> FALSE, v |-> NoDoc, rest |-> << >>]
POk(v, r) == [ok |-> TRUE, v |-> v, rest |-> r]

\* Lexemes: "{" "}" braces, "[" "]" brackets, "," comma, "s1" the members
\* `"success":true,"summary":"ok"`, "s0" the members `"success":false`,
\* "k" the member name `"k":`, "5" a number, "null", " " whitespace, "x" any
\* other character.
RECURSIVE ParseValue(_)
RECURSIVE ParseItems(_, _)
ParseValue(u) ==
  IF u = << >> THEN PFail
  ELSE IF Head(u) = "5" THEN POk(JNum, Tail(u))
  ELSE IF Head(u) = "null" THEN POk(JNull, Tail(u))
  ELSE IF Head(u) = "{"
  THEN IF Len(u) >= 2 /\ u[2] = "}" THEN POk(JObj("absent"), SubSeq(u, 3, Len(u)))
       ELSE IF Len(u) >= 3 /\ u[2] = "s1" /\ u[3] = "}"
       THEN POk(JObj("true"), SubSeq(u, 4, Len(u)))
       ELSE IF Len(u) >= 3 /\ u[2] = "s0" /\ u[3] = "}"
       THEN POk(JObj("false"), SubSeq(u, 4, Len(u)))
       ELSE IF Len(u) >= 2 /\ u[2] = "k"
       THEN LET r == ParseValue(SubSeq(u, 3, Len(u))) IN
            IF r.ok /\ r.rest # << >> /\ Head(r.rest) = "}"
            THEN POk(JObjK(r.v), Tail(r.rest))
            ELSE PFail
       ELSE PFail
  ELSE IF Head(u) = "["
  THEN IF Len(u) >= 2 /\ u[2] = "]" THEN POk(JArr(<< >>), SubSeq(u, 3, Len(u)))
       ELSE ParseItems(Tail(u), << >>)
  ELSE PFail

\* the elements of an array after its "[" or after a ","
ParseItems(u, acc) ==
  LET r == ParseValue(u) IN
  IF ~r.ok \/ r.rest = << >> THEN PFail
  ELSE IF Head(r.rest) = "]" THEN POk(JArr(Append(acc, r.v)), Tail(r.rest))
  ELSE IF Head(r.rest) = "," THEN ParseItems(Tail(r.rest), Append(acc, r.v))
  ELSE PFail

\* JSON.parse on a token text: one value and nothing after it
JSONparse(t) ==
  LET r == ParseValue(StripWs(t)) IN
  IF r.ok /\ r.rest = << >> THEN r.v ELSE JThrow(Lit("Unexpected token"))

indexOf(t, c) ==
  IF \E i \in 1..Len(t) : t[i] = c
  THEN CHOOSE i \in 1..Len(t) : t[i] = c /\ \A j \in 1..(i - 1) : t[j] # c
  ELSE 0

lastIndexOf(t, c) ==
  IF \E i \in 1..Len(t) : t[i] = c
  THEN CHOOSE i \in 1..Len(t) : t[i] = c /\ \A j \in (i + 1)..Len(t) : t[j] # c
  ELSE 0

\* a variant of the parser below that cuts at the first "}", not the last
safeParsePythonJson_FirstClose(stdout) ==
  LET text == Trim(stdout) IN
  IF text = << >> THEN JNull
  ELSE LET strict == JSONparse(text) IN
       IF strict.t # "throw" THEN strict
       ELSE LET first == indexOf(text, "{")
                last == indexOf(text, "}") IN
            IF first >= 1 /\ last > first
            THEN JSONparse(SubSeq(text, first, last))
            ELSE JThrow(Lit("Python output was not valid JSON"))

\* indices are 1-based here: `first >= 0` of the code is `first >= 1`
safeParsePythonJson(stdout) ==
  LET text == Trim(stdout) IN
  IF text = << >> THEN JNull
  ELSE LET strict == JSONparse(text) IN
       IF strict.t # "throw" THEN strict
       ELSE LET first == indexOf(text, "{")
                last == lastIndexOf(text, "}") IN
            IF first >= 1 /\ last > first
            THEN JSONparse(SubSeq(text, first, last))
            ELSE JThrow(Lit("Python output was not valid JSON"))

\* result.summary || fallback
SummaryOf(doc, fallback) ==
  IF doc.t = "obj" /\ doc.success = "true" THEN Lit("ok") ELSE Lit(fallback)

\* ------------------------------------------------------------ requests
NoFile == [ext |-> "none", size |-> 0]
File(e, mb) == [ext |-> e, size |-> mb]

\* job descriptions: texts over letters "a", blanks " " and the characters
\* a shell treats specially
JdText(n) == [i \in 1..n |-> "a"]
JdValid == JdText(MIN_JD_LEN)
JdShort == JdText(MIN_JD_LEN - 1)
JdPadded == << " " >> \o JdShort \o << " " >>
JdAbsent == << >>

\* text is req.body.jobDescription (empty when absent or ''); jd is its
\* trimmed length, -1 when the field is falsy
NoReq == [kind |-> "none", user |-> "", file |-> NoFile, n |-> 0, jd |-> 0 - 1, text |-> << >>]
DAReq(u, f) == [kind |-> "da", user |-> u, file |-> f, n |-> 1, jd |-> 0 - 1, text |-> << >>]
RSReq(u, f, cnt, txt) ==
  [kind |-> "rs", user |-> u, file |-> f, n |-> cnt,
   jd |-> IF txt = << >> THEN 0 - 1 ELSE Len(Trim(txt)), text |-> txt]

DAFiles ==
  { NoFile, File("exe", 1), File("pdf", 1), File("csv", 1),
    File("csv", MAX_FILE_MB + 1), File("csv", MULTER_LIMIT_MB + 1) }

\* batch requests: the well-formed one and one violation at a time
RSShapes ==
  { << File("pdf", 1), 1, JdValid >>,
    << File("pdf", 1), 2, JdValid >>,
    << NoFile, 0, JdValid >>,
    << File("pdf", 1), FILES_LIMIT + 1, JdValid >>,
    << File("exe", 1), 1, JdValid >>,
    << File("csv", 1), 1, JdValid >>,
    << File("pdf", MULTER_LIMIT_MB + 1), 1, JdValid >>,
    << File("pdf", 1), 1, JdAbsent >>,
    << File("pdf", 1), 1, JdShort >>,
    << File("pdf", 1), 1, JdPadded >> }

\* --------------------------------------------------------------- values
\* file_name column: a name, a count of files ("N resumes"), or NULL
NoName == [kind |-> "null", n |-> 0]
FileName == [kind |-> "name", n |-> 0]
FileCount(k) == [kind |-> "count", n |-> k]

\* w is the history of the row: the status values its UPDATEs stored after
\* the INSERT, in order
NoRow == [user |-> "", bot |-> "", file |-> NoName, status |-> "absent", err |-> NullMsg,
          w |-> << >>]
Row(u, b, f, st) == [user |-> u, bot |-> b, file |-> f, status |-> st, err |-> NullMsg,
                     w |-> << >>]

\* value a service promise resolves to; eid 0 is an absent executionId
Pending == [settled |-> FALSE, success |-> FALSE, eid |-> 0,
            error |-> NullMsg, message |-> NullMsg, data |-> NoDoc, by |-> ""]
Res(ok, e, er, m, d, h) == [settled |-> TRUE, success |-> ok, eid |-> e,
                            error |-> er, message |-> m, data |-> d, by |-> h]

\* HTTP response; http 0 is "no response yet", eid 0 an absent executionId
NoResp == [http |-> 0, success |-> FALSE, eid |-> 0, status |-> "", error |-> NullMsg,
           message |-> NullMsg, data |-> NoDoc, summary |-> NullMsg]
Resp(h, ok, e, st, er, m, d, su) ==
  [http |-> h, success |-> ok, eid |-> e, status |-> st, error |-> er,
   message |-> m, data |-> d, summary |-> su]

NoWrite == [status |-> "", msg |-> NullMsg, res |-> Pending]
Write(st, m, r) == [status |-> st, msg |-> m, res |-> r]

\* argument vector a worker was started with; via is how it was started
NoArgv == [script |-> "", input |-> << "", 0 >>, jd |-> << >>, eid |-> 0, via |-> ""]

VARIABLES
  execs,     \* table bot_executions: Ids -> row (NoRow when absent)
  results,   \* table results: rows in insertion order
  nextId,    \* next value of uuidv4()
  req,       \* the request handled in each slot
  rpc,       \* position of the route handler
  rEid,      \* executionId of the route handler
  promise,   \* settlement of the promise the service returned
  resp,      \* response sent for the request
  onDisk,    \* the uploaded input is on disk
  cleanup,   \* the one-hour timer that removes the batch directory
  spc,       \* position of the service body
  sEid,      \* executionId of the service
  timer,     \* setTimeout handle of the dataset service
  tw,        \* the timeout callback's UPDATE is in flight
  child,     \* worker process: state and exit code
  argvs,     \* argument vectors of the workers started for the slot
  stdout,    \* captured stdout
  stderr,    \* captured stderr
  evErr,     \* child 'error' event and its handler
  evClose,   \* child 'close' event / execFile callback and its handler
  hw,        \* write awaited by the 'error' handler
  cw,        \* write awaited by the 'close' handler / execFile callback
  acted,     \* terminal handlers that ran for the slot, in order
  get,       \* response of GET /result/:executionId, when it was the last step
  hist,      \* response of GET /history, when it was the last step
  pin,       \* a text given to safeParsePythonJson, by its parts
  pout,      \* what safeParsePythonJson returned or threw for it
  dropped,   \* a 'data' handler discarded a chunk of the slot's stdout, stderr
  disk,      \* files under uploads/: directory, name, and the upload it holds
  up         \* batch uploads: file names, execution id, position of the handler

vars == << execs, results, nextId, req, rpc, rEid, promise, resp, onDisk, cleanup, spc, sEid,
           timer, tw, child, argvs, stdout, stderr, evErr, evClose, hw, cw, acted,
           get, hist, pin, pout, dropped, disk, up >>

routeVars == << req, rpc, rEid, resp, onDisk, cleanup >>
svcVars == << spc, sEid, timer, tw, child, argvs, stdout, stderr, evErr, evClose, hw, cw, acted >>

NoChild == [st |-> "none", code |-> ""]
NoGet == [user |-> "", eid |-> 0, resp |-> NoResp]
NoHist == [user |-> "", ids |-> {}]
parseVars == << pin, pout >>
uploadVars == << disk, up >>
NoUpload == [pc |-> "idle", names |-> << >>, eid |-> 0, dir |-> 0, moved |-> << >>,
             recorded |-> NoName]

\* get and hist hold the response of the last step when that step was a
\* retrieval; every other step leaves them empty
ReadsCleared == get' = NoGet /\ hist' = NoHist

InitProgram ==
  /\ execs = [i \in Ids |-> NoRow]
  /\ results = << >>
  /\ nextId = 1
  /\ req = [s \in Subs |-> NoReq]
  /\ rpc = [s \in Subs |-> "idle"]
  /\ rEid = [s \in Subs |-> 0]
  /\ promise = [s \in Subs |-> Pending]
  /\ resp = [s \in Subs |-> NoResp]
  /\ onDisk = [s \in Subs |-> FALSE]
  /\ cleanup = [s \in Subs |-> "off"]
  /\ spc = [s \in Subs |-> "idle"]
  /\ sEid = [s \in Subs |-> 0]
  /\ timer = [s \in Subs |-> "off"]
  /\ tw = [s \in Subs |-> FALSE]
  /\ child = [s \in Subs |-> NoChild]
  /\ argvs = [s \in Subs |-> << >>]
  /\ stdout = [s \in Subs |-> << >>]
  /\ stderr = [s \in Subs |-> << >>]
  /\ evErr = [s \in Subs |-> "no"]
  /\ evClose = [s \in Subs |-> "no"]
  /\ hw = [s \in Subs |-> NoWrite]
  /\ cw = [s \in Subs |-> NoWrite]
  /\ acted = [s \in Subs |-> << >>]
  /\ get = NoGet
  /\ hist = NoHist
  /\ dropped = [s \in Subs |-> [out |-> FALSE, err |-> FALSE]]
  /\ disk = {}
  /\ up = [u \in Uploads |-> NoUpload]

Init == InitProgram /\ pin = [pre |-> << >>, x |-> NoDoc, suf |-> << >>] /\ pout = NoDoc

\* ----------------------------------------------------------------- store
\* a variant of the UPDATE below that stores the message and not the status
SetStatusMsg_MessageOnly(ex, id, st, m) ==
  IF id \in Ids /\ ex[id].status # "absent"
  THEN [ex EXCEPT ![id].err = m]
  ELSE ex

\* UPDATE bot_executions SET status, error_message WHERE id: no row, no effect
SetStatusMsg(ex, id, st, m) ==
  IF id \in Ids /\ ex[id].status # "absent"
  THEN [ex EXCEPT ![id].status = st, ![id].err = m, ![id].w = Append(@, st)]
  ELSE ex

\* UPDATE bot_executions SET status WHERE id (error_message untouched)
SetStatus(ex, id, st) ==
  IF id \in Ids /\ ex[id].status # "absent"
  THEN [ex EXCEPT ![id].status = st, ![id].w = Append(@, st)]
  ELSE ex

\* a row with this id exists in bot_executions
Present0(ex, id) == id \in Ids /\ ex[id].status # "absent"

InsertExec(ex, id, row) == [ex EXCEPT ![id] = row]

\* a variant of the row below that keeps the summary and drops the document
ResultRow_SummaryOnly(id, doc, su) == [eid |-> id, data |-> JObj("absent"), summary |-> su]

ResultRow(id, doc, su) == [eid |-> id, data |-> doc, summary |-> su]

\* first settlement wins: later resolve() calls are no-ops
Settle(p, r) == IF p.settled THEN p ELSE r

\* ------------------------------------------------- worker output samples

StdoutChunks ==
  { << "{", "s1", "}" >>, << "{", "s0", "}" >>, << "x", "x" >>, << "x", "{", "x", "}" >>,
    << "5" >>, << " " >> }
\* a text one character longer than truncate() keeps
LongText == [i \in 1..(TRUNCATE_N + 1) |-> "x"]
StderrChunks == { << "Traceback" >>, LongText }

TimeoutMsg == Lit("Timed out after 300000ms")

ClearTimeout(t) == IF t = "armed" THEN "cleared" ELSE t

\* multer (upload.single / upload.array) and the server's error middleware:
\* a rejected upload never reaches the route handler and is answered 500
MulterRejects(r) ==
  \/ r.n > FILES_LIMIT
  \/ (r.file # NoFile /\ r.file.ext \notin MulterExts)
  \/ (r.file # NoFile /\ r.file.size > MULTER_LIMIT_MB)

MiddlewareError ==
  Resp(500, FALSE, 0, "", Lit("Internal Server Error"), Lit("multer"), NoDoc, NullMsg)

\* --------------------------------------------- POST /api/bots/data-analyst
\* multer, the two validations, uuidv4() and the INSERT being issued
DA_Submit(s, u, f) ==
  LET r == DAReq(u, f) IN
  /\ req[s] = NoReq
  /\ \A t \in Subs : t < s => req[t] # NoReq
  /\ req' = [req EXCEPT ![s] = r]
  /\ IF MulterRejects(r)
     THEN /\ resp' = [resp EXCEPT ![s] = MiddlewareError]
          /\ rpc' = [rpc EXCEPT ![s] = "done"]
          /\ UNCHANGED << rEid, nextId, onDisk >>
     ELSE IF f = NoFile
     THEN /\ resp' = [resp EXCEPT ![s] = Resp(400, FALSE, 0, "", Lit("No file uploaded"),
                                              Lit("Please upload a CSV file"), NoDoc, NullMsg)]
          /\ rpc' = [rpc EXCEPT ![s] = "done"]
          /\ UNCHANGED << rEid, nextId, onDisk >>
     ELSE IF f.ext # "csv"
     THEN /\ resp' = [resp EXCEPT ![s] = Resp(400, FALSE, 0, "", Lit("Invalid file type"),
                                              Lit("Please upload a CSV file"), NoDoc, NullMsg)]
          /\ rpc' = [rpc EXCEPT ![s] = "done"]
          /\ UNCHANGED << rEid, nextId, onDisk >>
     ELSE /\ rEid' = [rEid EXCEPT ![s] = nextId]
          /\ nextId' = nextId + 1
          /\ onDisk' = [onDisk EXCEPT ![s] = TRUE]
          /\ rpc' = [rpc EXCEPT ![s] = "da_insert"]
          /\ UNCHANGED resp
  /\ UNCHANGED << execs, results, promise, cleanup >>
  /\ UNCHANGED svcVars
  /\ ReadsCleared
  /\ UNCHANGED parseVars
  /\ UNCHANGED uploadVars
  /\ UNCHANGED dropped

DARow(s) == Row(req[s].user, "data_analyst", FileName, "processing")

\* the INSERT completes and the route calls analyzeData(req.file.path, userId):
\* no third argument, so the service resolves at its first check
DA_CallService(s) ==
  /\ rpc[s] = "da_insert"
  /\ execs' = InsertExec(execs, rEid[s], DARow(s))
  /\ rpc' = [rpc EXCEPT ![s] = "da_wait"]
  /\ promise' = [promise EXCEPT ![s] =
       Res(FALSE, 0, Lit("Missing executionId"),
           Lit("Server error: executionId not provided to service"), NoDoc, "noid")]
  /\ spc' = [spc EXCEPT ![s] = "done"]
  /\ UNCHANGED << results, nextId, req, rEid, resp, onDisk, cleanup >>
  /\ UNCHANGED << sEid, timer, tw, child, argvs, stdout, stderr, evErr, evClose, hw, cw, acted >>
  /\ ReadsCleared
  /\ UNCHANGED parseVars
  /\ UNCHANGED uploadVars
  /\ UNCHANGED dropped

\* analyzeData(filePath, userId, executionId) called as its signature and
\* JSDoc state it, with the id of the row the route created; runs the
\* pre-checks up to the first awaited UPDATE
DA_CallServiceWithId(s) ==
  /\ rpc[s] = "da_insert"
  /\ execs' = InsertExec(execs, rEid[s], DARow(s))
  /\ rpc' = [rpc EXCEPT ![s] = "da_wait"]
  /\ sEid' = [sEid EXCEPT ![s] = rEid[s]]
  /\ IF ~onDisk[s] THEN spc' = [spc EXCEPT ![s] = "missingw"]
     ELSE IF req[s].file.size > MAX_FILE_MB THEN spc' = [spc EXCEPT ![s] = "guardw"]
     ELSE spc' = [spc EXCEPT ![s] = "markrun"]
  /\ UNCHANGED << results, nextId, req, rEid, resp, onDisk, cleanup, promise >>
  /\ UNCHANGED << timer, tw, child, argvs, stdout, stderr, evErr, evClose, hw, cw, acted >>
  /\ ReadsCleared
  /\ UNCHANGED parseVars
  /\ UNCHANGED uploadVars
  /\ UNCHANGED dropped

\* the UPDATE of a failed pre-check completes and the promise resolves
SvcPrecheckFailed(s) ==
  /\ spc[s] \in {"missingw", "guardw"}
  /\ execs' = SetStatusMsg(execs, sEid[s], "failed",
                 IF spc[s] = "missingw" THEN Lit("File missing on server")
                 ELSE Lit("File too large (server guard)"))
  /\ promise' = [promise EXCEPT ![s] = Settle(@,
       IF spc[s] = "missingw"
       THEN Res(FALSE, sEid[s], Lit("Invalid file"),
                Lit("File path is missing or file does not exist"), NoDoc, "precheck")
       ELSE Res(FALSE, sEid[s], Lit("File too large"),
                Lit("Max allowed size is 10 MB"), NoDoc, "precheck"))]
  /\ spc' = [spc EXCEPT ![s] = "done"]
  /\ UNCHANGED << results, nextId >>
  /\ UNCHANGED routeVars
  /\ UNCHANGED << sEid, timer, tw, child, argvs, stdout, stderr, evErr, evClose, hw, cw, acted >>
  /\ ReadsCleared
  /\ UNCHANGED parseVars
  /\ UNCHANGED uploadVars
  /\ UNCHANGED dropped

DAArgv(s) == [script |-> "data_analyst_bot.py", input |-> << "file", s >>,
              jd |-> << >>, eid |-> sEid[s], via |-> "spawn"]

\* the UPDATE to 'running' completes; spawn(), setTimeout() and the four
\* listeners are set up in the same tick.  A failed spawn is reported by an
\* 'error' event.
SvcSpawn(s, ok) ==
  /\ spc[s] = "markrun"
  /\ execs' = SetStatus(execs, sEid[s], "running")
  /\ argvs' = [argvs EXCEPT ![s] = Append(@, DAArgv(s))]
  /\ timer' = [timer EXCEPT ![s] = "armed"]
  /\ child' = [child EXCEPT ![s] =
       IF ok THEN [st |-> "running", code |-> ""] ELSE [st |-> "spawnfail", code |-> "-2"]]
  /\ evErr' = [evErr EXCEPT ![s] = IF ok THEN "no" ELSE "pending"]
  /\ spc' = [spc EXCEPT ![s] = "spawned"]
  /\ UNCHANGED << results, nextId, promise >>
  /\ UNCHANGED routeVars
  /\ UNCHANGED << sEid, tw, stdout, stderr, evClose, hw, cw, acted >>
  /\ ReadsCleared
  /\ UNCHANGED parseVars
  /\ UNCHANGED uploadVars
  /\ UNCHANGED dropped

\* ------------------------------------------------ the spawned worker
\* child.stdout.on('data'): one chunk, appended whole when the buffer is
\* under the cap and discarded otherwise.  A worker writes one chunk, or
\* filler first and further chunks after it.
ChildStdout(s, d) ==
  /\ child[s].st = "running"
  /\ req[s].kind = "da"
  /\ IF stdout[s] = << >> THEN TRUE ELSE Head(stdout[s]) = FILL_OUT /\ ~dropped[s].out
  /\ stdout' = [stdout EXCEPT ![s] = IF TextLen(@) < SOFT_STDOUT_CAP THEN @ \o d ELSE @]
  /\ dropped' = [dropped EXCEPT ![s].out = ~(TextLen(stdout[s]) < SOFT_STDOUT_CAP)]
  /\ UNCHANGED << execs, results, nextId, promise >>
  /\ UNCHANGED routeVars
  /\ UNCHANGED << spc, sEid, timer, tw, child, argvs, stderr, evErr, evClose, hw, cw, acted >>
  /\ ReadsCleared
  /\ UNCHANGED parseVars
  /\ UNCHANGED uploadVars

\* child.stderr.on('data')
ChildStderr(s, d) ==
  /\ child[s].st = "running"
  /\ req[s].kind = "da"
  /\ IF stderr[s] = << >> THEN TRUE ELSE Head(stderr[s]) = FILL_ERR /\ ~dropped[s].err
  /\ stderr' = [stderr EXCEPT ![s] = IF TextLen(@) < SOFT_STDERR_CAP THEN @ \o d ELSE @]
  /\ dropped' = [dropped EXCEPT ![s].err = ~(TextLen(stderr[s]) < SOFT_STDERR_CAP)]
  /\ UNCHANGED << execs, results, nextId, promise >>
  /\ UNCHANGED routeVars
  /\ UNCHANGED << spc, sEid, timer, tw, child, argvs, stdout, evErr, evClose, hw, cw, acted >>
  /\ ReadsCleared
  /\ UNCHANGED parseVars
  /\ UNCHANGED uploadVars

\* the worker exits by itself; its 'close' event is queued
ChildExit(s, c) ==
  /\ child[s].st = "running"
  /\ req[s].kind = "da"
  /\ child' = [child EXCEPT ![s] = [st |-> "exited", code |-> c]]
  /\ evClose' = [evClose EXCEPT ![s] = "pending"]
  /\ UNCHANGED << execs, results, nextId, promise >>
  /\ UNCHANGED routeVars
  /\ UNCHANGED << spc, sEid, timer, tw, argvs, stdout, stderr, evErr, hw, cw, acted >>
  /\ ReadsCleared
  /\ UNCHANGED parseVars
  /\ UNCHANGED uploadVars
  /\ UNCHANGED dropped

\* setTimeout callback: SIGKILL (a no-op on a child that is gone), an UPDATE
\* that is not awaited, resolve()
Timeout(s) ==
  /\ timer[s] = "armed"
  /\ child[s].st # "spawnfail"
  /\ timer' = [timer EXCEPT ![s] = "fired"]
  /\ child' = [child EXCEPT ![s] =
       IF @.st = "running" THEN [st |-> "killed", code |-> "null"] ELSE @]
  /\ evClose' = [evClose EXCEPT ![s] = IF child[s].st = "running" THEN "pending" ELSE @]
  /\ tw' = [tw EXCEPT ![s] = TRUE]
  /\ promise' = [promise EXCEPT ![s] = Settle(@,
       Res(FALSE, sEid[s], Lit("Analysis failed"), TimeoutMsg, NoDoc, "timeout"))]
  /\ acted' = [acted EXCEPT ![s] = Append(@, "timeout")]
  /\ UNCHANGED << execs, results, nextId >>
  /\ UNCHANGED routeVars
  /\ UNCHANGED << spc, sEid, argvs, stdout, stderr, evErr, hw, cw >>
  /\ ReadsCleared
  /\ UNCHANGED parseVars
  /\ UNCHANGED uploadVars
  /\ UNCHANGED dropped

\* the UPDATE issued by the timeout callback reaches the store
TimeoutWrite(s) ==
  /\ tw[s]
  /\ tw' = [tw EXCEPT ![s] = FALSE]
  /\ execs' = SetStatusMsg(execs, sEid[s], "failed", TimeoutMsg)
  /\ UNCHANGED << results, nextId, promise >>
  /\ UNCHANGED routeVars
  /\ UNCHANGED << spc, sEid, timer, child, argvs, stdout, stderr, evErr, evClose, hw, cw, acted >>
  /\ ReadsCleared
  /\ UNCHANGED parseVars
  /\ UNCHANGED uploadVars
  /\ UNCHANGED dropped

\* child.on('error'), up to its awaited UPDATE; 'close' follows a failed spawn
OnError(s) ==
  /\ evErr[s] = "pending"
  /\ timer' = [timer EXCEPT ![s] = ClearTimeout(@)]
  /\ hw' = [hw EXCEPT ![s] =
       LET msg == truncate(Lit("spawn python ENOENT"), TRUNCATE_N) IN
       Write("failed", msg, Res(FALSE, sEid[s], Lit("Analysis failed"), msg, NoDoc, "error"))]
  /\ evErr' = [evErr EXCEPT ![s] = "await"]
  /\ evClose' = [evClose EXCEPT ![s] = "pending"]
  /\ acted' = [acted EXCEPT ![s] = Append(@, "error")]
  /\ UNCHANGED << execs, results, nextId, promise >>
  /\ UNCHANGED routeVars
  /\ UNCHANGED << spc, sEid, tw, child, argvs, stdout, stderr, cw >>
  /\ ReadsCleared
  /\ UNCHANGED parseVars
  /\ UNCHANGED uploadVars
  /\ UNCHANGED dropped

OnErrorWritten(s) ==
  /\ evErr[s] = "await"
  /\ execs' = SetStatusMsg(execs, sEid[s], hw[s].status, hw[s].msg)
  /\ promise' = [promise EXCEPT ![s] = Settle(@, hw[s].res)]
  /\ evErr' = [evErr EXCEPT ![s] = "done"]
  /\ hw' = [hw EXCEPT ![s] = NoWrite]
  /\ UNCHANGED << results, nextId >>
  /\ UNCHANGED routeVars
  /\ UNCHANGED << spc, sEid, timer, tw, child, argvs, stdout, stderr, evClose, cw, acted >>
  /\ ReadsCleared
  /\ UNCHANGED parseVars
  /\ UNCHANGED uploadVars
  /\ UNCHANGED dropped

\* what the 'close' handler decides before its first await: the write it
\* issues (status "insert" stands for the INSERT INTO results) and the value
\* it will resolve with
CloseDecision(e, code, out, err) ==
  IF code # "0"
  THEN LET msg == truncate(OrElse(err, OrElse(out, Lit("Python exited with code " \o code))),
                           TRUNCATE_N) IN
       Write("failed", msg, Res(FALSE, e, Lit("Analysis failed"), msg, NoDoc, "close"))
  ELSE IF out = << >>
  THEN Write("failed", Lit("Python returned empty output"),
             Res(FALSE, e, Lit("No output"), Lit("Python script returned empty output"),
                 NoDoc, "close"))
  ELSE LET result == safeParsePythonJson(out) IN
       IF result.t = "throw"
       THEN LET msg == truncate(OrElse(result.msg, Lit("Failed to process results")),
                                TRUNCATE_N) IN
            Write("failed", msg,
                  Res(FALSE, e, Lit("Failed to process results"), msg, NoDoc, "close"))
       ELSE IF result.t # "obj"
       THEN Write("failed", Lit("Python output parse failed"),
                  Res(FALSE, e, Lit("Invalid output"),
                      Lit("Python output could not be parsed"), NoDoc, "close"))
       ELSE Write("insert", NullMsg,
                  Res(result.success # "false", e, NullMsg, NullMsg, result, "close"))

\* child.on('close'), up to its first await
OnClose(s) ==
  /\ evClose[s] = "pending"
  /\ req[s].kind = "da"
  /\ timer' = [timer EXCEPT ![s] = ClearTimeout(@)]
  /\ cw' = [cw EXCEPT ![s] = CloseDecision(sEid[s], child[s].code, stdout[s], stderr[s])]
  /\ evClose' = [evClose EXCEPT ![s] = IF cw'[s].status = "insert" THEN "ins" ELSE "w1"]
  /\ acted' = [acted EXCEPT ![s] = Append(@, "close")]
  /\ UNCHANGED << execs, results, nextId, promise >>
  /\ UNCHANGED routeVars
  /\ UNCHANGED << spc, sEid, tw, child, argvs, stdout, stderr, evErr, hw >>
  /\ ReadsCleared
  /\ UNCHANGED parseVars
  /\ UNCHANGED uploadVars
  /\ UNCHANGED dropped

\* a failure UPDATE of the 'close' handler completes; resolve()
OnCloseWritten(s) ==
  /\ evClose[s] = "w1"
  /\ req[s].kind = "da"
  /\ execs' = SetStatusMsg(execs, sEid[s], cw[s].status, cw[s].msg)
  /\ promise' = [promise EXCEPT ![s] = Settle(@, cw[s].res)]
  /\ evClose' = [evClose EXCEPT ![s] = "done"]
  /\ cw' = [cw EXCEPT ![s] = NoWrite]
  /\ UNCHANGED << results, nextId >>
  /\ UNCHANGED routeVars
  /\ UNCHANGED << spc, sEid, timer, tw, child, argvs, stdout, stderr, evErr, hw, acted >>
  /\ ReadsCleared
  /\ UNCHANGED parseVars
  /\ UNCHANGED uploadVars
  /\ UNCHANGED dropped

\* the INSERT INTO results completes; the status UPDATE is issued
OnCloseInserted(s) ==
  /\ evClose[s] = "ins"
  /\ req[s].kind = "da"
  /\ results' = Append(results,
       ResultRow(sEid[s], cw[s].res.data, SummaryOf(cw[s].res.data, "Analysis complete")))
  /\ cw' = [cw EXCEPT ![s].status = IF cw[s].res.success THEN "completed" ELSE "failed"]
  /\ evClose' = [evClose EXCEPT ![s] = "stat"]
  /\ UNCHANGED << execs, nextId, promise >>
  /\ UNCHANGED routeVars
  /\ UNCHANGED << spc, sEid, timer, tw, child, argvs, stdout, stderr, evErr, hw, acted >>
  /\ ReadsCleared
  /\ UNCHANGED parseVars
  /\ UNCHANGED uploadVars
  /\ UNCHANGED dropped

\* UPDATE ... SET status, completed_at, error_message = NULL completes; resolve()
OnCloseStatus(s) ==
  /\ evClose[s] = "stat"
  /\ req[s].kind = "da"
  /\ execs' = SetStatusMsg(execs, sEid[s], cw[s].status, NullMsg)
  /\ promise' = [promise EXCEPT ![s] = Settle(@, cw[s].res)]
  /\ evClose' = [evClose EXCEPT ![s] = "done"]
  /\ cw' = [cw EXCEPT ![s] = NoWrite]
  /\ UNCHANGED << results, nextId >>
  /\ UNCHANGED routeVars
  /\ UNCHANGED << spc, sEid, timer, tw, child, argvs, stdout, stderr, evErr, hw, acted >>
  /\ ReadsCleared
  /\ UNCHANGED parseVars
  /\ UNCHANGED uploadVars
  /\ UNCHANGED dropped

\* ------------------------------------- the route after `await analyzeData`
DA_AfterService(s) ==
  /\ rpc[s] = "da_wait"
  /\ promise[s].settled
  /\ rpc' = [rpc EXCEPT ![s] = IF promise[s].success THEN "da_okw" ELSE "da_failw"]
  /\ UNCHANGED << execs, results, nextId, promise, req, rEid, resp, onDisk, cleanup >>
  /\ UNCHANGED svcVars
  /\ ReadsCleared
  /\ UNCHANGED parseVars
  /\ UNCHANGED uploadVars
  /\ UNCHANGED dropped

\* the route's UPDATE completes, the upload is unlinked, the response is sent
DA_Finish(s) ==
  /\ rpc[s] \in {"da_okw", "da_failw"}
  /\ IF rpc[s] = "da_failw"
     THEN /\ execs' = SetStatusMsg(execs, rEid[s], "failed", promise[s].message)
          /\ resp' = [resp EXCEPT ![s] =
               Resp(500, FALSE, promise[s].eid, "", promise[s].error, promise[s].message,
                    promise[s].data, NullMsg)]
     ELSE /\ execs' = SetStatus(execs, rEid[s], "completed")
          /\ resp' = [resp EXCEPT ![s] =
               Resp(200, TRUE, rEid[s], "", NullMsg, Lit("Analysis complete"),
                    promise[s].data, NullMsg)]
  /\ onDisk' = [onDisk EXCEPT ![s] = FALSE]
  /\ rpc' = [rpc EXCEPT ![s] = "done"]
  /\ UNCHANGED << results, nextId, promise, req, rEid, cleanup >>
  /\ UNCHANGED svcVars
  /\ ReadsCleared
  /\ UNCHANGED parseVars
  /\ UNCHANGED uploadVars
  /\ UNCHANGED dropped

\* ------------------------------------------ POST /api/bots/resume-screener
\* multer, the two validations, uuidv4(), mkdir, the moves, the INSERT issued
RS_Submit(s, u, shape) ==
  LET r == RSReq(u, shape[1], shape[2], shape[3]) IN
  /\ req[s] = NoReq
  /\ \A t \in Subs : t < s => req[t] # NoReq
  /\ req' = [req EXCEPT ![s] = r]
  /\ IF MulterRejects(r)
     THEN /\ resp' = [resp EXCEPT ![s] = MiddlewareError]
          /\ rpc' = [rpc EXCEPT ![s] = "done"]
          /\ UNCHANGED << rEid, nextId, onDisk >>
     ELSE IF r.n = 0
     THEN /\ resp' = [resp EXCEPT ![s] = Resp(400, FALSE, 0, "", Lit("No files uploaded"),
                 Lit("Please upload at least one resume (PDF/TXT/DOCX)"), NoDoc, NullMsg)]
          /\ rpc' = [rpc EXCEPT ![s] = "done"]
          /\ UNCHANGED << rEid, nextId, onDisk >>
     ELSE IF r.jd < 0 \/ r.jd < MIN_JD_LEN
     THEN /\ resp' = [resp EXCEPT ![s] = Resp(400, FALSE, 0, "", Lit("Missing job description"),
                 Lit("Please provide a job description (min 10 characters)"), NoDoc, NullMsg)]
          /\ rpc' = [rpc EXCEPT ![s] = "done"]
          /\ UNCHANGED << rEid, nextId, onDisk >>
     ELSE /\ rEid' = [rEid EXCEPT ![s] = nextId]
          /\ nextId' = nextId + 1
          /\ onDisk' = [onDisk EXCEPT ![s] = TRUE]
          /\ rpc' = [rpc EXCEPT ![s] = "rs_insert"]
          /\ UNCHANGED resp
  /\ UNCHANGED << execs, results, promise, cleanup >>
  /\ UNCHANGED svcVars
  /\ ReadsCleared
  /\ UNCHANGED parseVars
  /\ UNCHANGED uploadVars
  /\ UNCHANGED dropped

\* the route's INSERT completes; screenResumes(uploadDir, jobDescription,
\* userId) runs up to its own INSERT with a uuid of its own
RS_CallService(s) ==
  /\ rpc[s] = "rs_insert"
  /\ execs' = InsertExec(execs, rEid[s],
                 Row(req[s].user, "resume_screener", FileCount(req[s].n), "processing"))
  /\ rpc' = [rpc EXCEPT ![s] = "rs_wait"]
  /\ sEid' = [sEid EXCEPT ![s] = nextId]
  /\ nextId' = nextId + 1
  /\ spc' = [spc EXCEPT ![s] = "rs_ins"]
  /\ UNCHANGED << results, promise, req, rEid, resp, onDisk, cleanup >>
  /\ UNCHANGED << timer, tw, child, argvs, stdout, stderr, evErr, evClose, hw, cw, acted >>
  /\ ReadsCleared
  /\ UNCHANGED parseVars
  /\ UNCHANGED uploadVars
  /\ UNCHANGED dropped

RSArgv(s) == [script |-> "resume_screener_bot.py", input |-> << "dir", rEid[s] >>,
              jd |-> req[s].text, eid |-> sEid[s], via |-> "execFile"]

\* the service's INSERT completes (.then): execFile starts the worker
RS_Exec(s) ==
  /\ spc[s] = "rs_ins"
  /\ execs' = InsertExec(execs, sEid[s], Row(req[s].user, "resume-screener", NoName, "running"))
  /\ argvs' = [argvs EXCEPT ![s] = Append(@, RSArgv(s))]
  /\ child' = [child EXCEPT ![s] = [st |-> "running", code |-> ""]]
  /\ spc' = [spc EXCEPT ![s] = "rs_exec"]
  /\ UNCHANGED << results, nextId, promise >>
  /\ UNCHANGED routeVars
  /\ UNCHANGED << sEid, timer, tw, stdout, stderr, evErr, evClose, hw, cw, acted >>
  /\ ReadsCleared
  /\ UNCHANGED parseVars
  /\ UNCHANGED uploadVars
  /\ UNCHANGED dropped

ExecFileOutcomes == {"ok", "exit1", "timeout", "spawnfail"}

\* what the execFile callback decides before its first await
CallbackDecision(e, outcome, out, err) ==
  IF outcome # "ok"
  THEN Write("failed", NullMsg,
             Res(FALSE, 0, Lit("Screening failed"),
                 OrElse(err, Lit("Command failed: python resume_screener_bot.py")),
                 NoDoc, "callback"))
  ELSE IF out = << >>
  THEN Write("failed", NullMsg,
             Res(FALSE, 0, Lit("No output"), Lit("Python script returned empty output"),
                 NoDoc, "callback"))
  ELSE LET result == JSONparse(Trim(out)) IN
       IF result.t = "throw"
       THEN Write("failed", NullMsg,
                  Res(FALSE, 0, Lit("Invalid output format"),
                      Lit("Python script returned invalid JSON"), NoDoc, "callback"))
       ELSE IF result.t = "null"
       THEN Write("failed", NullMsg,
                  Res(FALSE, 0, Lit("Failed to process results"),
                      Lit("Cannot read properties of null"), NoDoc, "callback"))
       ELSE Write("insert", NullMsg, Res(TRUE, e, NullMsg, NullMsg, result, "callback"))

\* the execFile callback, up to its first await; execFile's own timer kills
\* the worker on "timeout"
RS_Callback(s, outcome, out, err) ==
  /\ spc[s] = "rs_exec"
  /\ child[s].st = "running"
  /\ outcome \in {"ok", "spawnfail"} => err = << >>
  /\ outcome # "ok" => out = << >>
  /\ child' = [child EXCEPT ![s] =
       IF outcome = "timeout" THEN [st |-> "killed", code |-> "null"]
       ELSE IF outcome = "spawnfail" THEN [st |-> "spawnfail", code |-> "-2"]
       ELSE [st |-> "exited", code |-> IF outcome = "ok" THEN "0" ELSE "1"]]
  /\ stdout' = [stdout EXCEPT ![s] = out]
  /\ stderr' = [stderr EXCEPT ![s] = err]
  /\ cw' = [cw EXCEPT ![s] = CallbackDecision(sEid[s], outcome, out, err)]
  /\ evClose' = [evClose EXCEPT ![s] = IF cw'[s].status = "insert" THEN "rins" ELSE "rw1"]
  /\ acted' = [acted EXCEPT ![s] = Append(@, "callback")]
  /\ spc' = [spc EXCEPT ![s] = "done"]
  /\ UNCHANGED << execs, results, nextId, promise >>
  /\ UNCHANGED routeVars
  /\ UNCHANGED << sEid, timer, tw, argvs, evErr, hw >>
  /\ ReadsCleared
  /\ UNCHANGED parseVars
  /\ UNCHANGED uploadVars
  /\ UNCHANGED dropped

\* a failure UPDATE (status only) of the callback completes; resolve()
RS_Written(s) ==
  /\ evClose[s] = "rw1"
  /\ execs' = SetStatus(execs, sEid[s], cw[s].status)
  /\ promise' = [promise EXCEPT ![s] = Settle(@, cw[s].res)]
  /\ evClose' = [evClose EXCEPT ![s] = "done"]
  /\ cw' = [cw EXCEPT ![s] = NoWrite]
  /\ UNCHANGED << results, nextId >>
  /\ UNCHANGED routeVars
  /\ UNCHANGED << spc, sEid, timer, tw, child, argvs, stdout, stderr, evErr, hw, acted >>
  /\ ReadsCleared
  /\ UNCHANGED parseVars
  /\ UNCHANGED uploadVars
  /\ UNCHANGED dropped

\* the INSERT INTO results completes; the UPDATE to 'completed' is issued
RS_Inserted(s) ==
  /\ evClose[s] = "rins"
  /\ results' = Append(results,
       ResultRow(sEid[s], cw[s].res.data, SummaryOf(cw[s].res.data, "Screening complete")))
  /\ cw' = [cw EXCEPT ![s].status = "completed"]
  /\ evClose' = [evClose EXCEPT ![s] = "rstat"]
  /\ UNCHANGED << execs, nextId, promise >>
  /\ UNCHANGED routeVars
  /\ UNCHANGED << spc, sEid, timer, tw, child, argvs, stdout, stderr, evErr, hw, acted >>
  /\ ReadsCleared
  /\ UNCHANGED parseVars
  /\ UNCHANGED uploadVars
  /\ UNCHANGED dropped

\* the UPDATE to 'completed' completes; resolve()
RS_Status(s) ==
  /\ evClose[s] = "rstat"
  /\ execs' = SetStatus(execs, sEid[s], cw[s].status)
  /\ promise' = [promise EXCEPT ![s] = Settle(@, cw[s].res)]
  /\ evClose' = [evClose EXCEPT ![s] = "done"]
  /\ cw' = [cw EXCEPT ![s] = NoWrite]
  /\ UNCHANGED << results, nextId >>
  /\ UNCHANGED routeVars
  /\ UNCHANGED << spc, sEid, timer, tw, child, argvs, stdout, stderr, evErr, hw, acted >>
  /\ ReadsCleared
  /\ UNCHANGED parseVars
  /\ UNCHANGED uploadVars
  /\ UNCHANGED dropped

\* ------------------------- screenResumes, revision that starts a shell
\* characters of a job description that /bin/sh treats specially
DQUOTE == "DQUOTE"
BACKTICK == "BACKTICK"
SEMI == "SEMI"
DOLLAR == "DOLLAR"
NEWLINE == "NEWLINE"
BSLASH == "BSLASH"

JdQuoted == << DQUOTE, SEMI, NEWLINE >> \o JdText(MIN_JD_LEN - 3)
JdDollar == << DOLLAR >> \o JdText(MIN_JD_LEN - 1)
JdBackticks == << BACKTICK, "a", BACKTICK >> \o JdText(MIN_JD_LEN - 3)
JdOneBacktick == << BACKTICK >> \o JdText(MIN_JD_LEN - 1)

JdShapes ==
  { << File("pdf", 1), 1, JdQuoted >>, << File("pdf", 1), 1, JdDollar >>,
    << File("pdf", 1), 1, JdBackticks >>, << File("pdf", 1), 1, JdOneBacktick >> }

\* jobDescription.replace(/"/g, '\\"')
RECURSIVE EscapeQuotes(_)
EscapeQuotes(t) ==
  IF t = << >> THEN << >>
  ELSE IF Head(t) = DQUOTE THEN << BSLASH, DQUOTE >> \o EscapeQuotes(Tail(t))
  ELSE << Head(t) >> \o EscapeQuotes(Tail(t))

IsNameChar(c) == c = "a"

RECURSIVE SkipName(_)
SkipName(t) == IF t # << >> /\ IsNameChar(Head(t)) THEN SkipName(Tail(t)) ELSE t

\* the word /bin/sh makes of the text between the double quotes of the
\* command line: backslash escapes, $name expanded (unset: empty), `...`
\* replaced by the output of the command, an unescaped quote ends the word.
\* ok is FALSE when the shell reports a syntax error and starts nothing.
RECURSIVE ShellWord(_)
ShellWord(t) ==
  IF t = << >> THEN [ok |-> TRUE, word |-> << >>]
  ELSE IF Head(t) = BSLASH
  THEN IF Len(t) = 1 THEN [ok |-> FALSE, word |-> << >>]
       ELSE LET r == ShellWord(SubSeq(t, 3, Len(t))) IN
            IF t[2] \in {DOLLAR, BACKTICK, DQUOTE, BSLASH}
            THEN [ok |-> r.ok, word |-> << t[2] >> \o r.word]
            ELSE IF t[2] = NEWLINE THEN r
            ELSE [ok |-> r.ok, word |-> << BSLASH, t[2] >> \o r.word]
  ELSE IF Head(t) = DQUOTE THEN [ok |-> TRUE, word |-> << >>]
  ELSE IF Head(t) = DOLLAR /\ Len(t) > 1 /\ IsNameChar(t[2])
  THEN ShellWord(SkipName(Tail(t)))
  ELSE IF Head(t) = BACKTICK
  THEN LET close == indexOf(Tail(t), BACKTICK) IN
       IF close = 0 THEN [ok |-> FALSE, word |-> << >>]
       ELSE LET r == ShellWord(SubSeq(Tail(t), close + 1, Len(t) - 1)) IN
            [ok |-> r.ok, word |-> << "CMDOUT" >> \o r.word]
  ELSE LET r == ShellWord(Tail(t)) IN [ok |-> r.ok, word |-> << Head(t) >> \o r.word]

LegacyArgv(s, e) ==
  [script |-> "resume_screener_bot.py", input |-> << "dir", rEid[s] >>,
   jd |-> ShellWord(EscapeQuotes(req[s].text)).word, eid |-> e, via |-> "shell"]

\* the route's INSERT completes; screenResumes draws its own id, builds the
\* command line and starts it with exec(); the shell starts the worker unless
\* it rejects the line
RSL_CallService(s) ==
  /\ rpc[s] = "rs_insert"
  /\ execs' = InsertExec(execs, rEid[s],
                 Row(req[s].user, "resume_screener", FileCount(req[s].n), "processing"))
  /\ rpc' = [rpc EXCEPT ![s] = "rs_wait"]
  /\ sEid' = [sEid EXCEPT ![s] = nextId]
  /\ nextId' = nextId + 1
  /\ argvs' = [argvs EXCEPT ![s] =
       IF ShellWord(EscapeQuotes(req[s].text)).ok THEN Append(@, LegacyArgv(s, nextId)) ELSE @]
  /\ child' = [child EXCEPT ![s] = [st |-> "running", code |-> ""]]
  /\ spc' = [spc EXCEPT ![s] = "rsl_exec"]
  /\ UNCHANGED << results, promise, req, rEid, resp, onDisk, cleanup >>
  /\ UNCHANGED << timer, tw, stdout, stderr, evErr, evClose, hw, cw, acted >>
  /\ ReadsCleared
  /\ UNCHANGED parseVars
  /\ UNCHANGED uploadVars
  /\ UNCHANGED dropped

\* what the exec callback does before its only await (status "insert"), or
\* the value it resolves with at once (status "")
LegacyDecision(e, outcome, out, err) ==
  IF outcome # "ok"
  THEN Write("", NullMsg,
             Res(FALSE, 0, Lit("Screening failed"),
                 OrElse(err, Lit("Command failed: python resume_screener_bot.py")),
                 NoDoc, "callback"))
  ELSE LET result == JSONparse(out) IN
       IF result.t = "throw"
       THEN Write("", NullMsg,
                  Res(FALSE, 0, Lit("Failed to process results"), result.msg, NoDoc, "callback"))
       ELSE IF result.t = "null"
       THEN Write("", NullMsg,
                  Res(FALSE, 0, Lit("Failed to process results"),
                      Lit("Cannot read properties of null"), NoDoc, "callback"))
       ELSE Write("insert", NullMsg, Res(TRUE, e, NullMsg, NullMsg, result, "callback"))

\* the exec callback; a command line the shell rejected ends with an error
RSL_Callback(s, outcome, out, err) ==
  /\ spc[s] = "rsl_exec"
  /\ child[s].st = "running"
  /\ argvs[s] = << >> => outcome = "exit1"
  /\ outcome \in {"ok", "spawnfail"} => err = << >>
  /\ outcome # "ok" => out = << >>
  /\ child' = [child EXCEPT ![s] =
       IF outcome = "timeout" THEN [st |-> "killed", code |-> "null"]
       ELSE IF outcome = "spawnfail" THEN [st |-> "spawnfail", code |-> "-2"]
       ELSE [st |-> "exited", code |-> IF outcome = "ok" THEN "0" ELSE "1"]]
  /\ stdout' = [stdout EXCEPT ![s] = out]
  /\ stderr' = [stderr EXCEPT ![s] = err]
  /\ LET w == LegacyDecision(sEid[s], outcome, out, err) IN
     IF w.status = "insert"
     THEN /\ cw' = [cw EXCEPT ![s] = w]
          /\ evClose' = [evClose EXCEPT ![s] = "lins"]
          /\ UNCHANGED promise
     ELSE /\ promise' = [promise EXCEPT ![s] = Settle(@, w.res)]
          /\ evClose' = [evClose EXCEPT ![s] = "done"]
          /\ UNCHANGED cw
  /\ acted' = [acted EXCEPT ![s] = Append(@, "callback")]
  /\ spc' = [spc EXCEPT ![s] = "done"]
  /\ UNCHANGED << execs, results, nextId >>
  /\ UNCHANGED routeVars
  /\ UNCHANGED << sEid, timer, tw, argvs, evErr, hw >>
  /\ ReadsCleared
  /\ UNCHANGED parseVars
  /\ UNCHANGED uploadVars
  /\ UNCHANGED dropped

\* INSERT INTO results under the service's own id: results.execution_id
\* references bot_executions(id), so the INSERT is rejected when no such row
\* exists and the catch block resolves
RSL_Inserted(s) ==
  /\ evClose[s] = "lins"
  /\ IF Present0(execs, sEid[s])
     THEN /\ results' = Append(results,
               ResultRow(sEid[s], cw[s].res.data, SummaryOf(cw[s].res.data, "Screening complete")))
          /\ promise' = [promise EXCEPT ![s] = Settle(@, cw[s].res)]
     ELSE /\ promise' = [promise EXCEPT ![s] = Settle(@,
               Res(FALSE, 0, Lit("Failed to process results"),
                   Lit("violates foreign key constraint"), NoDoc, "callback"))]
          /\ UNCHANGED results
  /\ evClose' = [evClose EXCEPT ![s] = "done"]
  /\ cw' = [cw EXCEPT ![s] = NoWrite]
  /\ UNCHANGED << execs, nextId >>
  /\ UNCHANGED routeVars
  /\ UNCHANGED << spc, sEid, timer, tw, child, argvs, stdout, stderr, evErr, hw, acted >>
  /\ ReadsCleared
  /\ UNCHANGED parseVars
  /\ UNCHANGED uploadVars
  /\ UNCHANGED dropped

\* the route after `await screenResumes`
RS_AfterService(s) ==
  /\ rpc[s] = "rs_wait"
  /\ promise[s].settled
  /\ rpc' = [rpc EXCEPT ![s] = IF promise[s].success THEN "rs_okw" ELSE "rs_failw"]
  /\ UNCHANGED << execs, results, nextId, promise, req, rEid, resp, onDisk, cleanup >>
  /\ UNCHANGED svcVars
  /\ ReadsCleared
  /\ UNCHANGED parseVars
  /\ UNCHANGED uploadVars
  /\ UNCHANGED dropped

\* the route's UPDATE completes and the response is sent; only the success
\* path schedules the removal of the upload directory
RS_Finish(s) ==
  /\ rpc[s] \in {"rs_okw", "rs_failw"}
  /\ IF rpc[s] = "rs_failw"
     THEN /\ execs' = SetStatusMsg(execs, rEid[s], "failed",
                 OrElse(promise[s].error, OrElse(promise[s].message, Lit("Service error"))))
          /\ resp' = [resp EXCEPT ![s] =
               Resp(500, FALSE, 0, "", NullMsg,
                    OrElse(promise[s].error, OrElse(promise[s].message, Lit("Screening failed"))),
                    promise[s].data, NullMsg)]
          /\ UNCHANGED cleanup
     ELSE /\ execs' = SetStatus(execs, rEid[s], "completed")
          /\ cleanup' = [cleanup EXCEPT ![s] = "armed"]
          /\ resp' = [resp EXCEPT ![s] =
               Resp(200, TRUE, rEid[s], "", NullMsg, Lit("Screening complete"),
                    promise[s].data, NullMsg)]
  /\ rpc' = [rpc EXCEPT ![s] = "done"]
  /\ UNCHANGED << results, nextId, promise, req, rEid, onDisk >>
  /\ UNCHANGED svcVars
  /\ ReadsCleared
  /\ UNCHANGED parseVars
  /\ UNCHANGED uploadVars
  /\ UNCHANGED dropped

\* ------------------------------------------------ store writes that fail
\* message of the error a rejected db.query carries
DbError == Lit("db error")
\* err.message is whatever the driver reports: a short text or a long one
DbErrors == { DbError, [i \in 1..(TRUNCATE_N + 1) |-> "e"] }

\* POST /data-analyst: an awaited db.query rejects; the catch block unlinks
\* the upload and answers 500
DA_StoreError(s) ==
  /\ rpc[s] \in {"da_insert", "da_okw", "da_failw"}
  /\ resp' = [resp EXCEPT ![s] =
       Resp(500, FALSE, 0, "", Lit("Internal server error"), DbError, NoDoc, NullMsg)]
  /\ onDisk' = [onDisk EXCEPT ![s] = FALSE]
  /\ rpc' = [rpc EXCEPT ![s] = "done"]
  /\ UNCHANGED << execs, results, nextId, promise, req, rEid, cleanup >>
  /\ UNCHANGED svcVars
  /\ ReadsCleared
  /\ UNCHANGED parseVars
  /\ UNCHANGED uploadVars
  /\ UNCHANGED dropped

\* analyzeData: an UPDATE awaited in the body rejects; the outer catch tries
\* an UPDATE of its own, swallows its failure, and resolves
SvcStoreError(s, ok, m) ==
  /\ spc[s] \in {"missingw", "guardw", "markrun"}
  /\ execs' = IF ok THEN SetStatusMsg(execs, sEid[s], "failed", truncate(m, TRUNCATE_N))
              ELSE execs
  /\ promise' = [promise EXCEPT ![s] = Settle(@,
       Res(FALSE, sEid[s], Lit("Internal error"), m, NoDoc, "catch"))]
  /\ spc' = [spc EXCEPT ![s] = "done"]
  /\ UNCHANGED << results, nextId >>
  /\ UNCHANGED routeVars
  /\ UNCHANGED << sEid, timer, tw, child, argvs, stdout, stderr, evErr, evClose, hw, cw, acted >>
  /\ ReadsCleared
  /\ UNCHANGED parseVars
  /\ UNCHANGED uploadVars
  /\ UNCHANGED dropped

\* the timeout callback's UPDATE rejects: .catch(() => {})
TimeoutWriteFailed(s) ==
  /\ tw[s]
  /\ tw' = [tw EXCEPT ![s] = FALSE]
  /\ UNCHANGED << execs, results, nextId, promise >>
  /\ UNCHANGED routeVars
  /\ UNCHANGED << spc, sEid, timer, child, argvs, stdout, stderr, evErr, evClose, hw, cw, acted >>
  /\ ReadsCleared
  /\ UNCHANGED parseVars
  /\ UNCHANGED uploadVars
  /\ UNCHANGED dropped

\* the UPDATE awaited by the 'error' handler rejects: the async listener
\* ends with an unhandled rejection and never calls resolve
OnErrorStoreError(s) ==
  /\ evErr[s] = "await"
  /\ evErr' = [evErr EXCEPT ![s] = "rejected"]
  /\ hw' = [hw EXCEPT ![s] = NoWrite]
  /\ UNCHANGED << execs, results, nextId, promise >>
  /\ UNCHANGED routeVars
  /\ UNCHANGED << spc, sEid, timer, tw, child, argvs, stdout, stderr, evClose, cw, acted >>
  /\ ReadsCleared
  /\ UNCHANGED parseVars
  /\ UNCHANGED uploadVars
  /\ UNCHANGED dropped

\* the write of the 'close' handler that is pending was issued inside its
\* try block (the non-object UPDATE, the INSERT, the status UPDATE)
CloseWriteInTry(s) ==
  \/ evClose[s] \in {"ins", "stat"}
  \/ (evClose[s] = "w1" /\ cw[s].res.error = Lit("Invalid output"))

\* a write awaited by the 'close' handler rejects: inside the try block the
\* catch block issues its failure UPDATE; outside it (exit code, empty
\* output) and inside the catch block the listener ends without resolve
OnCloseStoreError(s, m) ==
  /\ evClose[s] \in {"w1", "ins", "stat"}
  /\ req[s].kind = "da"
  /\ IF CloseWriteInTry(s)
     THEN /\ cw' = [cw EXCEPT ![s] =
               LET msg == truncate(OrElse(m, Lit("Failed to process results")),
                                   TRUNCATE_N) IN
               Write("failed", msg,
                     Res(FALSE, sEid[s], Lit("Failed to process results"), msg, NoDoc, "close"))]
          /\ evClose' = [evClose EXCEPT ![s] = "w1"]
     ELSE /\ cw' = [cw EXCEPT ![s] = NoWrite]
          /\ evClose' = [evClose EXCEPT ![s] = "rejected"]
  /\ UNCHANGED << execs, results, nextId, promise >>
  /\ UNCHANGED routeVars
  /\ UNCHANGED << spc, sEid, timer, tw, child, argvs, stdout, stderr, evErr, hw, acted >>
  /\ ReadsCleared
  /\ UNCHANGED parseVars
  /\ UNCHANGED uploadVars
  /\ UNCHANGED dropped

\* POST /resume-screener: an awaited db.query rejects; the catch block
\* unlinks the multer paths (the files were moved away) and answers 500
RS_StoreError(s) ==
  /\ rpc[s] \in {"rs_insert", "rs_okw", "rs_failw"}
  /\ resp' = [resp EXCEPT ![s] =
       Resp(500, FALSE, 0, "", Lit("Internal server error"), DbError, NoDoc, NullMsg)]
  /\ rpc' = [rpc EXCEPT ![s] = "done"]
  /\ UNCHANGED << execs, results, nextId, promise, req, rEid, onDisk, cleanup >>
  /\ UNCHANGED svcVars
  /\ ReadsCleared
  /\ UNCHANGED parseVars
  /\ UNCHANGED uploadVars
  /\ UNCHANGED dropped

\* screenResumes: its INSERT rejects; .catch resolves
RS_ExecStoreError(s) ==
  /\ spc[s] = "rs_ins"
  /\ promise' = [promise EXCEPT ![s] = Settle(@,
       Res(FALSE, 0, Lit("Internal error"), DbError, NoDoc, "catch"))]
  /\ spc' = [spc EXCEPT ![s] = "done"]
  /\ UNCHANGED << execs, results, nextId >>
  /\ UNCHANGED routeVars
  /\ UNCHANGED << sEid, timer, tw, child, argvs, stdout, stderr, evErr, evClose, hw, cw, acted >>
  /\ ReadsCleared
  /\ UNCHANGED parseVars
  /\ UNCHANGED uploadVars
  /\ UNCHANGED dropped

\* the write pending in the execFile callback is the UPDATE of its catch block
CallbackWriteInCatch(s) ==
  evClose[s] = "rw1" /\ cw[s].res.error = Lit("Failed to process results")

\* a variant of the action below in which a rejected status UPDATE is
\* ignored and the callback resolves as if it had succeeded
RS_CallbackStoreError_Ignored(s) ==
  /\ evClose[s] \in {"rw1", "rins", "rstat"}
  /\ promise' = [promise EXCEPT ![s] = Settle(@, cw[s].res)]
  /\ cw' = [cw EXCEPT ![s] = NoWrite]
  /\ evClose' = [evClose EXCEPT ![s] = "done"]
  /\ UNCHANGED << execs, results, nextId >>
  /\ UNCHANGED routeVars
  /\ UNCHANGED << spc, sEid, timer, tw, child, argvs, stdout, stderr, evErr, hw, acted >>
  /\ ReadsCleared
  /\ UNCHANGED parseVars
  /\ UNCHANGED uploadVars
  /\ UNCHANGED dropped

\* a write awaited by the execFile callback rejects: the catch block issues
\* its UPDATE; when that one rejects the callback ends without resolve
RS_CallbackStoreError(s) ==
  /\ evClose[s] \in {"rw1", "rins", "rstat"}
  /\ IF CallbackWriteInCatch(s)
     THEN /\ cw' = [cw EXCEPT ![s] = NoWrite]
          /\ evClose' = [evClose EXCEPT ![s] = "rejected"]
     ELSE /\ cw' = [cw EXCEPT ![s] =
               Write("failed", NullMsg,
                     Res(FALSE, 0, Lit("Failed to process results"), DbError, NoDoc, "callback"))]
          /\ evClose' = [evClose EXCEPT ![s] = "rw1"]
  /\ UNCHANGED << execs, results, nextId, promise >>
  /\ UNCHANGED routeVars
  /\ UNCHANGED << spc, sEid, timer, tw, child, argvs, stdout, stderr, evErr, hw, acted >>
  /\ ReadsCleared
  /\ UNCHANGED parseVars
  /\ UNCHANGED uploadVars
  /\ UNCHANGED dropped

\* setTimeout(..., 3600000) of the success path: rmSync of the upload directory
CleanupTimer(s) ==
  /\ cleanup[s] = "armed"
  /\ cleanup' = [cleanup EXCEPT ![s] = "ran"]
  /\ onDisk' = [onDisk EXCEPT ![s] = FALSE]
  /\ UNCHANGED << execs, results, nextId, promise, req, rpc, rEid, resp >>
  /\ UNCHANGED svcVars
  /\ ReadsCleared
  /\ UNCHANGED parseVars
  /\ UNCHANGED uploadVars
  /\ UNCHANGED dropped

\* --------------------------------------- GET /api/bots/result/:executionId
FirstResult(rs, e) ==
  IF \E i \in 1..Len(rs) : rs[i].eid = e
  THEN rs[CHOOSE i \in 1..Len(rs) : rs[i].eid = e /\ \A j \in 1..(i - 1) : rs[j].eid # e]
  ELSE ResultRow(0, NoDoc, NullMsg)

\* a variant of the handler below without the comparison of user_id
GetResultResponse_NoOwnerCheck(u, e, ex, rs) ==
  IF ex[e].status = "absent"
  THEN Resp(404, FALSE, 0, "", Lit("Execution not found"), NullMsg, NoDoc, NullMsg)
  ELSE LET r == FirstResult(rs, e) IN
       IF r.eid = 0 /\ ex[e].status # "processing"
       THEN Resp(404, FALSE, 0, "", Lit("Results not found"), NullMsg, NoDoc, NullMsg)
       ELSE Resp(200, TRUE, 0, ex[e].status, NullMsg, NullMsg, r.data, r.summary)

\* both reads of the handler, taken at one state of the store
GetResultResponse(u, e, ex, rs) ==
  IF ex[e].status = "absent"
  THEN Resp(404, FALSE, 0, "", Lit("Execution not found"), NullMsg, NoDoc, NullMsg)
  ELSE IF ex[e].user # u
  THEN Resp(403, FALSE, 0, "", Lit("Unauthorized"),
            Lit("You do not have access to this execution"), NoDoc, NullMsg)
  ELSE LET r == FirstResult(rs, e) IN
       IF r.eid = 0 /\ ex[e].status # "processing"
       THEN Resp(404, FALSE, 0, "", Lit("Results not found"), NullMsg, NoDoc, NullMsg)
       ELSE Resp(200, TRUE, 0, ex[e].status, NullMsg, NullMsg, r.data, r.summary)

GetResult(u, e) ==
  /\ get' = [user |-> u, eid |-> e, resp |-> GetResultResponse(u, e, execs, results)]
  /\ hist' = NoHist
  /\ UNCHANGED parseVars
  /\ UNCHANGED uploadVars
  /\ UNCHANGED dropped
  /\ UNCHANGED << execs, results, nextId, promise >>
  /\ UNCHANGED routeVars
  /\ UNCHANGED svcVars

\* ------------------------------------------------- GET /api/bots/history
HistoryResponse(u, ex) == {i \in Ids : ex[i].status # "absent" /\ ex[i].user = u}

History(u) ==
  /\ hist' = [user |-> u, ids |-> HistoryResponse(u, execs)]
  /\ get' = NoGet
  /\ UNCHANGED parseVars
  /\ UNCHANGED uploadVars
  /\ UNCHANGED dropped
  /\ UNCHANGED << execs, results, nextId, promise >>
  /\ UNCHANGED routeVars
  /\ UNCHANGED svcVars

\* ------------------------------------------------------------ behaviours
\* the first request of a run is u1's: the users are interchangeable
Submitters(s) == IF s = 1 THEN {"u1"} ELSE Users

Next ==
  \/ \E s \in Subs, f \in DAFiles : \E u \in Submitters(s) : DA_Submit(s, u, f)
  \/ \E s \in Subs : DA_CallService(s)
  \/ \E s \in Subs : DA_CallServiceWithId(s)
  \/ \E s \in Subs : SvcPrecheckFailed(s)
  \/ \E s \in Subs, ok \in BOOLEAN : SvcSpawn(s, ok)
  \/ \E s \in Subs, d \in StdoutChunks : ChildStdout(s, d)
  \/ \E s \in Subs, d \in StderrChunks : ChildStderr(s, d)
  \/ \E s \in Subs, c \in {"0", "1"} : ChildExit(s, c)
  \/ \E s \in Subs : Timeout(s)
  \/ \E s \in Subs : TimeoutWrite(s)
  \/ \E s \in Subs : OnError(s)
  \/ \E s \in Subs : OnErrorWritten(s)
  \/ \E s \in Subs : OnClose(s)
  \/ \E s \in Subs : OnCloseWritten(s)
  \/ \E s \in Subs : OnCloseInserted(s)
  \/ \E s \in Subs : OnCloseStatus(s)
  \/ \E s \in Subs : DA_AfterService(s)
  \/ \E s \in Subs : DA_Finish(s)
  \/ \E s \in Subs, sh \in RSShapes : \E u \in Submitters(s) : RS_Submit(s, u, sh)
  \/ \E s \in Subs : RS_CallService(s)
  \/ \E s \in Subs : RS_Exec(s)
  \/ \E s \in Subs, o \in ExecFileOutcomes, out \in StdoutChunks \cup {<< >>},
        err \in StderrChunks \cup {<< >>} : RS_Callback(s, o, out, err)
  \/ \E s \in Subs : RS_Written(s)
  \/ \E s \in Subs : RS_Inserted(s)
  \/ \E s \in Subs : RS_Status(s)
  \/ \E s \in Subs : RS_AfterService(s)
  \/ \E s \in Subs : RS_Finish(s)
  \/ \E s \in Subs : CleanupTimer(s)

Spec == Init /\ [][Next]_vars

NextReads ==
  \/ Next
  \/ \E u \in Users, e \in Ids : GetResult(u, e)
  \/ \E u \in Users : History(u)

SpecReads == Init /\ [][NextReads]_vars

\* both revisions of screenResumes, and job descriptions with shell characters
NextLegacy ==
  \/ Next
  \/ \E s \in Subs, sh \in JdShapes : \E u \in Submitters(s) : RS_Submit(s, u, sh)
  \/ \E s \in Subs : RSL_CallService(s)
  \/ \E s \in Subs, o \in ExecFileOutcomes, out \in StdoutChunks \cup {<< >>},
        err \in StderrChunks \cup {<< >>} : RSL_Callback(s, o, out, err)
  \/ \E s \in Subs : RSL_Inserted(s)

SpecLegacy == Init /\ [][NextLegacy]_vars

\* every handler, with store writes that may reject
NextFaults ==
  \/ Next
  \/ \E s \in Subs : DA_StoreError(s)
  \/ \E s \in Subs, ok \in BOOLEAN, m \in DbErrors : SvcStoreError(s, ok, m)
  \/ \E s \in Subs : TimeoutWriteFailed(s)
  \/ \E s \in Subs : OnErrorStoreError(s)
  \/ \E s \in Subs, m \in DbErrors : OnCloseStoreError(s, m)
  \/ \E s \in Subs : RS_StoreError(s)
  \/ \E s \in Subs : RS_ExecStoreError(s)
  \/ \E s \in Subs : RS_CallbackStoreError(s)

SpecFaults == Init /\ [][NextFaults]_vars

\* every handler, with workers that also write long runs of filler
NextCapture ==
  \/ Next
  \/ \E s \in Subs : ChildStdout(s, Lit(FILL_OUT))
  \/ \E s \in Subs : ChildStderr(s, Lit(FILL_ERR))

SpecCapture == Init /\ [][NextCapture]_vars

\* ------------------------------------------- safeParsePythonJson alone
\* text written by a worker around a document: free of braces
LogTexts == { << >>, << " " >>, << "x" >>, << "x", " " >>, << "[" >>, << "]" >> }

\* documents a worker may print: objects, flat and nested
Documents ==
  { JObj("true"), JObj("false"), JObj("absent"), JObjK(JObj("false")), JObjK(JNum),
    JObjK(JArr(<< JNum, JObj("true") >>)) }

\* texts that hold no document
Garbage ==
  { << >>, << " " >>, << "x", "x" >>, << "x", "{", "x", "}" >>, << "}", "{" >>, << "{", "x" >>,
    << "5" >>, << "null" >> }

RECURSIVE Serialize(_)
RECURSIVE SerializeItems(_)
\* the JSON text of a value
Serialize(v) ==
  IF v.t = "num" THEN << "5" >>
  ELSE IF v.t = "null" THEN << "null" >>
  ELSE IF v.t = "arr" THEN << "[" >> \o SerializeItems(v.items) \o << "]" >>
  ELSE IF "k" \in DOMAIN v THEN << "{", "k" >> \o Serialize(v.k) \o << "}" >>
  ELSE IF v.success = "true" THEN << "{", "s1", "}" >>
  ELSE IF v.success = "false" THEN << "{", "s0", "}" >>
  ELSE << "{", "}" >>

SerializeItems(items) ==
  IF items = << >> THEN << >>
  ELSE IF Len(items) = 1 THEN Serialize(items[1])
  ELSE Serialize(items[1]) \o << "," >> \o SerializeItems(Tail(items))

ParseInputs ==
  [pre : LogTexts, x : Documents, suf : LogTexts]
    \cup { [pre |-> g, x |-> NoDoc, suf |-> << >>] : g \in Garbage }

InputText(i) == i.pre \o (IF i.x = NoDoc THEN << >> ELSE Serialize(i.x)) \o i.suf

InitParse == InitProgram /\ pin \in ParseInputs /\ pout = NoDoc

\* one call of safeParsePythonJson
Parse ==
  /\ pout = NoDoc
  /\ pout' = safeParsePythonJson(InputText(pin))
  /\ UNCHANGED pin
  /\ UNCHANGED << execs, results, nextId, promise, get, hist, dropped >>
  /\ UNCHANGED routeVars
  /\ UNCHANGED svcVars
  /\ UNCHANGED uploadVars

SpecParse == InitParse /\ [][Parse]_vars

\* ------------------------------- POST /resume-screener: the uploaded files
\* characters of a file name; ".pdf" stands for the extension
SafeChars == {"a", "b", "c", "_", ".pdf"}

\* f.originalname.replace(/[^a-zA-Z0-9.\-_]/g, '_')
SafeName(n) == [i \in 1..Len(n) |-> IF n[i] \in SafeChars THEN n[i] ELSE "_"]

OriginalNames == { << "a", " ", "b", ".pdf" >>, << "a", "_", "b", ".pdf" >>, << "c", ".pdf" >> }

\* req.files of one request: one or two files, names not necessarily distinct
NameLists ==
  { << n >> : n \in OriginalNames } \cup { << n, m >> : n, m \in OriginalNames }

\* uploads/ itself, where multer stores what it receives
BaseDir == 0

\* the path multer gave the k-th file of upload u: a random name
TmpName(u, k) == << "tmp", u, k >>

Entry(d, n, f) == [dir |-> d, name |-> n, file |-> f]

\* fs.renameSync(oldPath, newPath): a file already at newPath is replaced
RenameSync(fs, od, on, nd, nn) ==
  IF \E e \in fs : e.dir = od /\ e.name = on
  THEN LET f == (CHOOSE e \in fs : e.dir = od /\ e.name = on).file IN
       { e \in fs : ~(e.dir = od /\ e.name = on) /\ ~(e.dir = nd /\ e.name = nn) }
         \cup { Entry(nd, nn, f) }
  ELSE fs

\* a variant of the directory below: the directory multer stored the files in
UploadDir_Shared(base, executionId) == base

\* path.join(baseDir, executionId)
UploadDir(base, executionId) == executionId

\* the loop over req.files, from the k-th file on
RECURSIVE MoveFiles(_, _, _, _, _)
MoveFiles(fs, u, names, d, k) ==
  IF k > Len(names) THEN fs
  ELSE MoveFiles(RenameSync(fs, BaseDir, TmpName(u, k), d, SafeName(names[k])),
                 u, names, d, k + 1)

\* upload.array('files', 300): multer has stored the files of a request
MulterStored(u, names) ==
  /\ up[u].pc = "idle"
  /\ \A v \in Uploads : v < u => up[v].pc # "idle"
  /\ disk' = disk \cup { Entry(BaseDir, TmpName(u, k), << u, k >>) : k \in 1..Len(names) }
  /\ up' = [up EXCEPT ![u].pc = "stored", ![u].names = names]
  /\ UNCHANGED << execs, results, nextId, promise, get, hist, dropped >>
  /\ UNCHANGED routeVars
  /\ UNCHANGED svcVars
  /\ UNCHANGED parseVars

\* the handler up to its first await: uuidv4(), mkdirSync, the moves, the
\* INSERT issued
RS_MoveFiles(u) ==
  /\ up[u].pc = "stored"
  /\ LET executionId == Cardinality({v \in Uploads : up[v].eid # 0}) + 1
         uploadDir == UploadDir(BaseDir, executionId) IN
     /\ disk' = MoveFiles(disk, u, up[u].names, uploadDir, 1)
     /\ up' = [up EXCEPT ![u].pc = "insert", ![u].eid = executionId, ![u].dir = uploadDir,
                         ![u].moved = [k \in 1..Len(up[u].names) |-> SafeName(up[u].names[k])]]
  /\ UNCHANGED << execs, results, nextId, promise, get, hist, dropped >>
  /\ UNCHANGED routeVars
  /\ UNCHANGED svcVars
  /\ UNCHANGED parseVars

\* the INSERT with `${movedFiles.length} resumes` completes and
\* screenResumes(uploadDir, ...) starts the worker on the directory
RS_WorkerInvoked(u) ==
  /\ up[u].pc = "insert"
  /\ up' = [up EXCEPT ![u].pc = "invoked", ![u].recorded = FileCount(Len(up[u].moved))]
  /\ UNCHANGED disk
  /\ UNCHANGED << execs, results, nextId, promise, get, hist, dropped >>
  /\ UNCHANGED routeVars
  /\ UNCHANGED svcVars
  /\ UNCHANGED parseVars

\* the worker is done and, an hour after a success, rmSync(uploadDir)
RS_DirRemoved(u) ==
  /\ up[u].pc = "invoked"
  /\ up' = [up EXCEPT ![u].pc = "removed"]
  /\ disk' = { e \in disk : e.dir # up[u].dir }
  /\ UNCHANGED << execs, results, nextId, promise, get, hist, dropped >>
  /\ UNCHANGED routeVars
  /\ UNCHANGED svcVars
  /\ UNCHANGED parseVars

NextUpload ==
  \/ \E u \in Uploads, names \in NameLists : MulterStored(u, names)
  \/ \E u \in Uploads : RS_MoveFiles(u)
  \/ \E u \in Uploads : RS_WorkerInvoked(u)
  \/ \E u \in Uploads : RS_DirRemoved(u)

SpecUpload == Init /\ [][NextUpload]_vars

\* ------------------------------------------------------------ properties
Terminal == {"completed", "failed"}

Present(i) == i \in Ids /\ execs[i].status # "absent"

\* the request passed validation: the route drew an execution id for it
Accepted(s) == rEid[s] # 0

Responded(s) == resp[s].http # 0

\* every callback of the slot has run: nothing is queued or in flight
Quiescent(s) ==
  /\ rpc[s] = "done"
  /\ spc[s] \in {"idle", "done", "spawned"}
  /\ child[s].st # "running"
  /\ timer[s] # "armed"
  /\ ~tw[s]
  /\ evErr[s] \in {"no", "done"}
  /\ evClose[s] \in {"no", "done"}

\* execution rows the route and the service inserted for the slot
RowsOf(s) == {i \in {rEid[s], sEid[s]} : Present(i)}

\* result rows stored for the slot
ResultsOf(s) == {k \in 1..Len(results) : results[k].eid \in {rEid[s], sEid[s]}}

\* C1: once the stored status of an Execution is completed or failed, no
\* later write changes it to a different status.
C1_TerminalStatusIsFinal ==
  [][\A i \in Ids : execs[i].status \in Terminal => execs'[i].status = execs[i].status]_vars

\* C2: when the response of an accepted submission has been sent, every
\* Execution created for it has status completed or failed.
C2_TerminalAtResponse ==
  \A s \in Subs : (Accepted(s) /\ Responded(s)) =>
     /\ RowsOf(s) # {}
     /\ \A i \in RowsOf(s) : execs[i].status \in Terminal

C2_Witness ==
  \E s \in Subs : /\ Accepted(s) /\ Responded(s)
                  /\ req[s].kind = "rs" /\ child[s].st = "killed"
                  /\ Cardinality(RowsOf(s)) = 2
                  /\ \A i \in RowsOf(s) : execs[i].status = "failed"

\* C3: exactly one Execution row is inserted for every submission that
\* passed validation.
C3_ExactlyOneRow ==
  \A s \in Subs : (Accepted(s) /\ Responded(s)) => Cardinality(RowsOf(s)) = 1

\* C4: one execution id is used throughout: the route's row, the worker's
\* last argument, the Result row and the success envelope carry the same id.
C4_SingleExecutionId ==
  \A s \in Subs : Accepted(s) =>
     /\ \A k \in 1..Len(argvs[s]) : argvs[s][k].eid = rEid[s]
     /\ \A k \in ResultsOf(s) : results[k].eid = rEid[s]
     /\ resp[s].success => resp[s].eid = rEid[s]

\* C5: when the worker is killed on timeout, the caller receives a failure
\* and, once every callback has run, the Execution is failed with an error
\* message that states the timeout and its budget.
C5_TimeoutFinalState ==
  \A s \in Subs : (child[s].st = "killed" /\ Quiescent(s)) =>
     /\ ~resp[s].success
     /\ execs[rEid[s]].status = "failed"
     /\ execs[rEid[s]].err = TimeoutMsg

\* C6: exactly one of the terminal handlers (timeout, 'error', 'close')
\* acts for a worker invocation: never two, and one when all is over.
C6_OneTerminalHandler ==
  \A s \in Subs : (req[s].kind = "da" /\ argvs[s] # << >>) =>
     /\ Len(acted[s]) <= 1
     /\ Quiescent(s) => Len(acted[s]) = 1

\* C7: an accepted dataset submission whose file is within the size limit
\* is finalized only after exactly one worker was spawned, with the argument
\* vector [script, inputFilePath, executionId of the route's row].
C7_OneWorkerPerDataset ==
  \A s \in Subs :
     (req[s].kind = "da" /\ Accepted(s) /\ req[s].file.size <= MAX_FILE_MB /\ Responded(s)) =>
        /\ Len(argvs[s]) = 1
        /\ argvs[s][1] = [script |-> "data_analyst_bot.py", input |-> << "file", s >>,
                          jd |-> << >>, eid |-> rEid[s], via |-> "spawn"]

\* C8: after a success envelope with executionId E, a retrieval of E by the
\* owner returns success, status completed and the envelope's document.
C8_RetrievableAfterSuccess ==
  \A s \in Subs :
     (resp[s].success /\ get.user = req[s].user /\ get.eid = resp[s].eid) =>
        /\ get.resp.http = 200
        /\ get.resp.status = "completed"
        /\ get.resp.data = resp[s].data

\* C9: a retrieval by a user who does not own the Execution is refused and
\* carries no status, document or summary; a history listing holds only
\* Executions of the listing user.
C9_OwnerOnly ==
  /\ (get.user # "" /\ Present(get.eid) /\ execs[get.eid].user # get.user) =>
        /\ get.resp.http = 403
        /\ ~get.resp.success
        /\ get.resp.status = ""
        /\ get.resp.data = NoDoc
        /\ get.resp.summary = NullMsg
  /\ hist.user # "" => \A i \in hist.ids : execs[i].user = hist.user

C9_Witness ==
  /\ get.user = "u2"
  /\ Present(get.eid)
  /\ execs[get.eid].user = "u1"
  /\ execs[get.eid].status = "completed"
  /\ \E k \in 1..Len(results) : results[k].eid = get.eid

\* the structural preconditions of a submission
Violates(r) ==
  \/ r.file = NoFile
  \/ r.n = 0
  \/ r.n > FILES_LIMIT
  \/ (r.kind = "da" /\ r.file.ext # "csv")
  \/ (r.kind = "rs" /\ r.file.ext \notin {"pdf", "txt", "docx"})
  \/ r.file.size > MULTER_LIMIT_MB
  \/ (r.kind = "da" /\ r.file.size > MAX_FILE_MB)
  \/ (r.kind = "rs" /\ r.jd < MIN_JD_LEN)

\* C10: a submission that violates a structural precondition is answered
\* with a client error and no Execution row is created for it.
C10_ViolationShortCircuits ==
  \A s \in Subs : (Responded(s) /\ Violates(req[s])) =>
     /\ resp[s].http \in 400..499
     /\ RowsOf(s) = {}

\* C11: when the response is returned every input the submission put on disk
\* has been deleted, except a batch directory whose one-hour removal is
\* scheduled.
C11_InputsCleanedUp ==
  \A s \in Subs : Responded(s) =>
     \/ ~onDisk[s]
     \/ (req[s].kind = "rs" /\ cleanup[s] = "armed")

\* C12: the job description the batch worker receives equals the submitted
\* string, and the worker is started from an argument vector, never through
\* a shell command line.
C12_JobDescriptionUnmodified ==
  \A s \in Subs : \A k \in 1..Len(argvs[s]) :
     argvs[s][k].script = "resume_screener_bot.py" =>
        /\ argvs[s][k].jd = req[s].text
        /\ argvs[s][k].via # "shell"

\* stdout of a worker that reports a semantic failure in a parseable document
SuccessFalseOutput == << "{", "s0", "}" >>

\* C13: a worker that exits 0 with a parseable document whose success field
\* is false leaves the Execution failed and the caller gets success=false.
C13_SemanticFailureIsFailure ==
  \A s \in Subs :
     (/\ child[s].st = "exited" /\ child[s].code = "0"
      /\ stdout[s] = SuccessFalseOutput
      /\ Quiescent(s) /\ Responded(s)) =>
        /\ ~resp[s].success
        /\ \A i \in RowsOf(s) : execs[i].status = "failed"

\* stdout texts that are no JSON document, with and without braces
MalformedSamples == { << "x", "x" >>, << "x", "{", "x", "}" >> }

\* stored errors that name malformed output, and those of a worker crash
MalformedErrors ==
  { Lit("Python output was not valid JSON"), Lit("Unexpected token"),
    Lit("Invalid output format") }

CrashErrors ==
  { Lit("Screening failed"), Lit("Python exited with code 1"),
    Lit("Python exited with code null") } \cup StderrChunks \cup StdoutChunks

\* C14: a worker that exits 0 with non-empty stdout that is not JSON leaves
\* the Execution failed with an error that names malformed output and is not
\* a crash error, stores no Result, and the caller gets a failure envelope.
C14_MalformedOutput ==
  \A s \in Subs :
     (/\ child[s].st = "exited" /\ child[s].code = "0"
      /\ stdout[s] \in MalformedSamples
      /\ Quiescent(s) /\ Responded(s)) =>
        /\ resp[s].http = 500 /\ ~resp[s].success
        /\ execs[rEid[s]].status = "failed"
        /\ execs[rEid[s]].err \in MalformedErrors \ CrashErrors
        /\ ResultsOf(s) = {}

\* C15: a worker that exits non-zero after writing to stderr leaves the
\* Execution failed with the captured stderr (truncated) as error_message.
C15_StderrIsStoredError ==
  \A s \in Subs :
     (/\ child[s].st = "exited" /\ child[s].code # "0"
      /\ stderr[s] # << >>
      /\ Quiescent(s) /\ Responded(s)) =>
        /\ execs[rEid[s]].status = "failed"
        /\ execs[rEid[s]].err = truncate(stderr[s], TRUNCATE_N)

\* C16: success is reported only when the Result row is stored and every
\* Execution row of the submission has been set to completed.
C16_SuccessOnlyAfterBothWrites ==
  \A s \in Subs : resp[s].success =>
     /\ \E k \in ResultsOf(s) : results[k].data = resp[s].data
     /\ RowsOf(s) # {}
     /\ \A i \in RowsOf(s) : execs[i].status = "completed"

\* the Result was inserted, the status UPDATE after it was rejected, and the
\* caller received a failure
C16_Witness ==
  \E s \in Subs :
     /\ Responded(s) /\ ~resp[s].success
     /\ ResultsOf(s) # {}
     /\ promise[s].error = Lit("Failed to process results")
     /\ promise[s].message = DbError

\* the route awaits a promise that nothing will settle any more
Hung(s) ==
  /\ rpc[s] \in {"da_wait", "rs_wait"}
  /\ ~promise[s].settled
  /\ spc[s] \in {"done", "spawned"}
  /\ child[s].st # "running"
  /\ timer[s] # "armed"
  /\ evErr[s] \in {"no", "done", "rejected"}
  /\ evClose[s] \in {"no", "done", "rejected"}

\* C17: whatever store write fails, the service's promise settles and the
\* submission is answered: no accepted submission is left without response.
C17_AlwaysResponds == \A s \in Subs : ~Hung(s)

\* the document the service parsed from the captured stdout
ParsedStdout(s) ==
  IF req[s].kind = "da" THEN safeParsePythonJson(stdout[s]) ELSE JSONparse(Trim(stdout[s]))

\* C18: on success the data of the envelope, the document stored as Result
\* and the document parsed from the worker's stdout are the same value.
C18_DataIsWorkerDocument ==
  \A s \in Subs : resp[s].success =>
     /\ resp[s].data = ParsedStdout(s)
     /\ ResultsOf(s) # {}
     /\ \A k \in ResultsOf(s) : results[k].data = ParsedStdout(s)

C18_Witness ==
  \E s \in Subs : /\ resp[s].success /\ resp[s].data = JObj("true")
                  /\ stdout[s] = << "{", "s1", "}" >>
                  /\ \E k \in ResultsOf(s) : results[k].data = JObj("true")

\* C19: a retrieval of an existing Execution by its owner returns success
\* with the current status, and the stored Result's document and summary, or
\* null for both when no Result exists.
C19_OwnerAlwaysGetsStatus ==
  (get.user # "" /\ Present(get.eid) /\ execs[get.eid].user = get.user) =>
     /\ get.resp.http = 200
     /\ get.resp.success
     /\ get.resp.status = execs[get.eid].status
     /\ get.resp.data = FirstResult(results, get.eid).data
     /\ get.resp.summary = FirstResult(results, get.eid).summary

\* C20: after a failure response no Execution row of the submission becomes
\* completed and no Result row is inserted for it; after a success response,
\* once every callback has run, its rows are completed.
C20_OutcomeAgreesWithStatus ==
  [][\A s \in Subs :
       /\ (Responded(s) /\ Accepted(s) /\ ~resp[s].success) =>
             /\ \A i \in Ids : (i \in {rEid[s], sEid[s]}) => execs'[i].status # "completed"
             /\ ResultsOf(s)' = ResultsOf(s)
       /\ (Responded(s) /\ resp[s].success /\ Quiescent(s)) =>
             \A i \in RowsOf(s) : execs[i].status = "completed"]_vars

\* C21: the stored status of every Execution is one of pending, running,
\* completed, failed; the row inserted on acceptance has status pending.
C21_StatusInEnum ==
  \A i \in Ids : Present(i) => execs[i].status \in {"pending", "running", "completed", "failed"}

\* C22: each Execution row receives at most one status write to running
\* and, after it, at most one write of a terminal status; no row gets a
\* terminal status written twice.
C22_AtMostTwoStatusWrites ==
  \A i \in Ids : Present(i) =>
     \/ execs[i].w = << >>
     \/ execs[i].w = << "running" >>
     \/ \E t \in Terminal : execs[i].w \in { << t >>, << "running", t >> }

\* C23: the error_message stored for any Execution has at most 2000
\* characters, whichever handler wrote it last.
C23_StoredErrorBounded ==
  \A i \in Ids : Present(i) => TextLen(execs[i].err) <= TRUNCATE_N

\* C24: a step changes the results table only by appending one row, for an
\* Execution that has no Result yet, whose worker exited with code 0 and
\* whose stdout parsed into an object; stored rows are never changed or
\* removed.
C24_ResultOnceAndImmutable ==
  [][\/ results' = results
     \/ /\ Len(results') = Len(results) + 1
        /\ SubSeq(results', 1, Len(results)) = results
        /\ LET row == results'[Len(results')] IN
           /\ row.data.t = "obj"
           /\ \A k \in 1..Len(results) : results[k].eid # row.eid
           /\ \E s \in Subs : /\ row.eid \in {rEid[s], sEid[s]}
                              /\ child[s] = [st |-> "exited", code |-> "0"]]_vars

\* JSON.parse(text) of the trimmed text, the first attempt of the parser
StrictParse(t) == JSONparse(Trim(t))

SettledOnExit(s) ==
  /\ child[s] = [st |-> "exited", code |-> "0"]
  /\ promise[s].settled
  /\ promise[s].by \in {"close", "callback"}

\* C26: stdout that is empty and stdout that is only whitespace give the
\* same empty-output failure, and text that is not a document gives a
\* different failure.
C26_BlankOutputIsEmptyOutput ==
  \A s \in Subs : SettledOnExit(s) =>
     /\ Trim(stdout[s]) = << >> =>
           /\ promise[s].error = Lit("No output")
           /\ promise[s].message = Lit("Python script returned empty output")
     /\ (Trim(stdout[s]) # << >> /\ ~promise[s].success) =>
           promise[s].error # Lit("No output")

\* C27: the captured stdout is never longer than the stdout cap and the
\* captured stderr never longer than the stderr cap.
C27_CaptureWithinCaps ==
  \A s \in Subs : /\ TextLen(stdout[s]) <= SOFT_STDOUT_CAP
                  /\ TextLen(stderr[s]) <= SOFT_STDERR_CAP

\* the outcome of an invocation whose worker wrote exactly the text that
\* was retained for the slot, with the same exit code and stderr
UntruncatedOutcome(s) == CloseDecision(sEid[s], child[s].code, stdout[s], stderr[s]).res

\* C28: when part of the worker's stdout was discarded at the cap, the
\* outcome the 'close' handler returns differs from the outcome of a run
\* whose complete stdout is the retained text.
C28_TruncationReported ==
  \A s \in Subs :
     (dropped[s].out /\ promise[s].settled /\ promise[s].by = "close") =>
        promise[s] # UntruncatedOutcome(s)

\* files in the directory of upload u
DirOf(u) == { e \in disk : e.dir = up[u].dir }

\* the handler of upload u has stored its files and the directory exists
HasDir(u) == up[u].pc \in {"insert", "invoked"}

\* C29: the directory of a batch submission is named by its own execution
\* id, no two submissions use the same directory, and it never holds a
\* file uploaded by another submission.
C29_DirectoriesDisjoint ==
  \A u \in Uploads : HasDir(u) =>
     /\ up[u].dir = up[u].eid
     /\ \A v \in Uploads : (v # u /\ HasDir(v)) => up[v].dir # up[u].dir
     /\ \A e \in DirOf(u) : e.file[1] = u

C29_Witness ==
  /\ \A u \in Uploads : up[u].pc = "invoked" /\ DirOf(u) # {}
  /\ up[1].names = up[2].names

\* C30: when the worker is invoked every uploaded file is in the execution
\* directory under a name of its own, and the recorded count of resumes is
\* the number of files in the directory.
C30_EveryFilePresentAndCounted ==
  \A u \in Uploads : up[u].pc = "invoked" =>
     /\ \A k \in 1..Len(up[u].names) : \E e \in DirOf(u) : e.file = << u, k >>
     /\ up[u].recorded = FileCount(Cardinality(DirOf(u)))

====
